---- MODULE Spec2Model ----
(***************************************************************************)
(* Model of the read benchmark in main.go: main builds one storage client, *)
(* attaches the retry policy, creates the bucket, starts NumOfWorker tasks *)
(* on the package-level errgroup eG, waits for them and prints one status  *)
(* line.  Each task runs ReadObject, a loop of NumOfReadCallPerWorker      *)
(* reads of one object.                                                    *)
(*                                                                         *)
(* Every access of a task to a variable of main (err, i) is a step of its  *)
(* own, so the interleavings of the unsynchronised accesses are all there. *)
(* An error value is read and written as a whole.                          *)
(***************************************************************************)
EXTENDS Integers, Naturals, Sequences, FiniteSets, TLC

\* Model sizes of NumOfWorker (48) and NumOfReadCallPerWorker (800).
NumOfWorker == 2
NumOfReadCallPerWorker == 2

Workers == 0..(NumOfWorker - 1)

VARIABLES
    pcMain,     \* position of main
    env,        \* process environment: the names that are set
    client,     \* "nil" | "ready"
    retrySet,   \* number of times SetRetry changed the client
    err,        \* main's err, captured by every task closure
    i,          \* main's loop variable, captured by every task closure
    gErr,       \* eG's err, set once by the first task that returns an error
    stdoutOk,   \* number of success lines printed
    stderr,     \* the error values printed to os.Stderr
    wpc,        \* position of each task
    idx,        \* each task's idx while its ReadObject runs, else -1
    n,          \* each ReadObject's loop counter while it runs, else 0
    lines,      \* durations printed by each ReadObject while it runs, else 0
    rcOpen,     \* the number of readers each task opened and has not closed
    roRes,      \* what each task's ReadObject returned
    tmp,        \* the operand each task read for fmt.Errorf at line 177
    bucketRes,  \* history: what bucketHandle.Create returned, "none" before
    firstRet,   \* history: the first non-nil error a task function returned
    nErrRet,    \* history: the number of task functions that returned an error
    linesAhead, \* history: the duration lines printed so far, less the lines
                \* due from the ReadObject calls that have returned
    transient,  \* the remote call the task is in has failed transiently and
                \* is being retried by the client
    ev          \* history: what each task's latest read has done, in order

vars == <<pcMain, env, client, retrySet, err, i, gErr, stdoutOk, stderr,
          wpc, idx, n, lines, rcOpen, roRes, tmp, bucketRes, firstRet, nErrRet,
          linesAhead, transient, ev>>

mainVars == <<pcMain, env, client, retrySet, i, stdoutOk, stderr, bucketRes>>
taskVars == <<wpc, idx, n, lines, rcOpen, roRes, tmp, firstRet, nErrRet,
              linesAhead, transient, ev>>

----------------------------------------------------------------------------
\* Error values.  kind says where the error was made, src which task made it
\* (-1: main), wraps how often the task closure wrapped it with %w.  kind and
\* src tell the values apart; Message below is the text of a value.

NilErr == [kind |-> "nil", src |-> -1, wraps |-> 0]

IsNil(e) == e = NilErr

NewErr(k, s) == [kind |-> k, src |-> s, wraps |-> 0]

\* fmt.Errorf("while reading object: %w", e): never nil, also for a nil e.
Wrap(e) == [e EXCEPT !.wraps = @ + 1]

\* The parts of a message: a text of the program, or the text of the error
\* a library call returned, formatted with %v.
Text(t) == [part |-> "text", v |-> t]
Cause == [part |-> "cause", v |-> "error of the call"]

\* The text of an error value: what ReadObject's fmt.Errorf calls (lines 123,
\* 128) and the closure's (line 177) make of it.  %w of a nil error prints
\* %!w(<nil>).
RECURSIVE Message(_)
Message(e) ==
    IF e.wraps > 0
       THEN <<Text("while reading object: ")>> \o Message([e EXCEPT !.wraps = @ - 1])
       ELSE CASE e.kind = "open" -> <<Text("while creating reader object: "), Cause>>
              [] e.kind = "copy" -> <<Text("while reading and discarding content: "), Cause>>
              [] e.kind = "nil" -> <<Text("%!w(<nil>)")>>
              [] OTHER -> <<Cause>>

\* strconv.Itoa for a non-negative int: its decimal digits.
RECURSIVE Itoa(_)
Itoa(k) == IF k < 10 THEN <<k>> ELSE Itoa(k \div 10) \o <<k % 10>>

ObjectNamePrefix == <<"50mb/1_thread.">>
ObjectNameSuffix == <<".0">>

ObjectName(workerId) == ObjectNamePrefix \o Itoa(workerId) \o ObjectNameSuffix

EnvVars == {"STORAGE_USE_GRPC", "GOOGLE_CLOUD_ENABLE_DIRECT_PATH_XDS"}

----------------------------------------------------------------------------
Init ==
    /\ pcMain = "create"
    /\ env = {}
    /\ client = "nil"
    /\ retrySet = 0
    /\ err = NilErr
    /\ i = 0
    /\ gErr = NilErr
    /\ stdoutOk = 0
    /\ stderr = <<>>
    /\ wpc = [w \in Workers |-> "idle"]
    /\ idx = [w \in Workers |-> -1]
    /\ n = [w \in Workers |-> 0]
    /\ lines = [w \in Workers |-> 0]
    /\ rcOpen = [w \in Workers |-> 0]
    /\ roRes = [w \in Workers |-> NilErr]
    /\ tmp = [w \in Workers |-> NilErr]
    /\ bucketRes = "none"
    /\ firstRet = NilErr
    /\ nErrRet = 0
    /\ linesAhead = 0
    /\ transient = [w \in Workers |-> FALSE]
    /\ ev = [w \in Workers |-> <<>>]

----------------------------------------------------------------------------
\* main, lines 146-156.

\* -client-protocol=http: CreateHttpClient fails when GetTokenSource or
\* storage.NewClient fails, and then returns a nil client.  main prints
\* nothing and goes on whatever err is.
MainCreateHttp ==
    /\ pcMain = "create"
    /\ \E ok \in BOOLEAN :
          /\ client' = IF ok THEN "ready" ELSE "nil"
          /\ err' = IF ok THEN NilErr ELSE NewErr("client", -1)
    /\ pcMain' = "setRetry"
    /\ UNCHANGED <<env, retrySet, i, gErr, stdoutOk, stderr, bucketRes>>
    /\ UNCHANGED taskVars

\* Any other protocol: CreateGrpcClient sets the two variables, ...
GrpcSetenv ==
    /\ pcMain = "create"
    /\ env' = env \cup EnvVars
    /\ pcMain' = "grpcNew"
    /\ UNCHANGED <<client, retrySet, err, i, gErr, stdoutOk, stderr, bucketRes>>
    /\ UNCHANGED taskVars

\* ... calls storage.NewClient, ...
GrpcNewClient ==
    /\ pcMain = "grpcNew"
    /\ \E ok \in BOOLEAN :
          /\ client' = IF ok THEN "ready" ELSE "nil"
          /\ err' = IF ok THEN NilErr ELSE NewErr("client", -1)
    /\ pcMain' = "grpcUnset"
    /\ UNCHANGED <<env, retrySet, i, gErr, stdoutOk, stderr, bucketRes>>
    /\ UNCHANGED taskVars

\* A CreateGrpcClient that returned at once when storage.NewClient failed.
EnvAfterUnsetOnSuccess(e) == IF client = "nil" THEN e ELSE e \ EnvVars

\* os.Unsetenv of both names (lines 104-110), whatever storage.NewClient
\* returned.
EnvAfterUnset(e) == e \ EnvVars

\* ... unsets them again ...
GrpcUnsetenv ==
    /\ pcMain = "grpcUnset"
    /\ env' = EnvAfterUnset(env)
    /\ pcMain' = "grpcReturn"
    /\ UNCHANGED <<client, retrySet, err, i, gErr, stdoutOk, stderr, bucketRes>>
    /\ UNCHANGED taskVars

\* ... and returns client and err (line 111).
GrpcReturn ==
    /\ pcMain = "grpcReturn"
    /\ pcMain' = "setRetry"
    /\ UNCHANGED <<env, client, retrySet, err, i, gErr, stdoutOk, stderr, bucketRes>>
    /\ UNCHANGED taskVars

\* A main that went on to the bucket without attaching the retry policy.
MainSetRetrySkipped ==
    /\ pcMain = "setRetry"
    /\ pcMain' = IF client = "nil" THEN "panic" ELSE "bucket"
    /\ UNCHANGED <<env, client, retrySet, err, i, gErr, stdoutOk, stderr, bucketRes>>
    /\ UNCHANGED taskVars

\* client.SetRetry(...), called whatever err is.  On a nil *storage.Client the
\* method dereferences its receiver: main panics and the process ends.
MainSetRetry ==
    /\ pcMain = "setRetry"
    /\ IF client = "nil"
          THEN /\ pcMain' = "panic"
               /\ UNCHANGED retrySet
          ELSE /\ pcMain' = "bucket"
               /\ retrySet' = retrySet + 1
    /\ UNCHANGED <<env, client, err, i, gErr, stdoutOk, stderr, bucketRes>>
    /\ UNCHANGED taskVars

\* A main that stopped on every error of Create.
ProvisionAbortsOnAnyError(e) == ~IsNil(e)

\* Lines 168-170: the error of Create is formatted and dropped, so no result
\* of Create makes main stop.
ProvisionAborts(e) == FALSE

\* bucketHandle.Create: no error, "bucket already exists", or any other error.
MainBucketCreate ==
    /\ pcMain = "bucket"
    /\ \E r \in {"ok", "exists", "other"} :
          /\ bucketRes' = r
          /\ err' = CASE r = "ok" -> NilErr
                      [] r = "exists" -> NewErr("bucketExists", -1)
                      [] r = "other" -> NewErr("bucketOther", -1)
          /\ pcMain' = IF ProvisionAborts(err') THEN "report" ELSE "go"
    /\ i' = 0
    /\ UNCHANGED <<env, client, retrySet, gErr, stdoutOk, stderr>>
    /\ UNCHANGED taskVars

\* eG has no limit set (line 46): Go never blocks.
GoBlocks == FALSE

\* eG.Go(func() error {...}) in iteration i: the task exists from here on.
MainGo ==
    /\ pcMain = "go"
    /\ ~GoBlocks
    /\ wpc' = [wpc EXCEPT ![i] = "spawned"]
    /\ pcMain' = "inc"
    /\ UNCHANGED <<env, client, retrySet, err, i, gErr, stdoutOk, stderr, bucketRes>>
    /\ UNCHANGED <<idx, n, lines, rcOpen, roRes, tmp, firstRet, nErrRet>>
    /\ UNCHANGED <<linesAhead, transient, ev>>

\* i++ and the loop test i < NumOfWorker.
MainInc ==
    /\ pcMain = "inc"
    /\ i' = i + 1
    /\ pcMain' = IF i + 1 < NumOfWorker THEN "go" ELSE "wait"
    /\ UNCHANGED <<env, client, retrySet, err, gErr, stdoutOk, stderr, bucketRes>>
    /\ UNCHANGED taskVars

----------------------------------------------------------------------------
\* The task closure, lines 173-181, and ReadObject, lines 114-138.

\* A context that is cancelled by the first error of the group, as that of
\* errgroup.WithContext is.
CtxDoneAfterFirstError == ~IsNil(gErr)

\* ctx is context.Background() (line 144): it is never done.
CtxDone == FALSE

\* What a remote call can return: its own success or failure, or the
\* context's error when the context is done.
CallOutcomes == IF CtxDone THEN {"canceled"} ELSE {"ok", "fail"}

\* idx := i reads main's loop variable when the task runs (line 174); the
\* object name is made from it (line 116).  i is the one variable of the loop
\* of line 172, so the task finds in it whatever main has counted up to.
TaskStart(w) ==
    /\ wpc[w] = "spawned"
    /\ idx' = [idx EXCEPT ![w] = i]
    /\ wpc' = [wpc EXCEPT ![w] = "open"]
    /\ UNCHANGED <<n, lines, rcOpen, roRes, tmp, firstRet, nErrRet>>
    /\ UNCHANGED <<linesAhead, transient, ev>>
    /\ UNCHANGED <<err, gErr>>
    /\ UNCHANGED mainVars

\* The duration lines a ReadObject call owes when it returns r in its loop's
\* iteration k (from 0): one for each read if r is nil, one for each read
\* before the failed one otherwise.
LinesDue(r, k) == IF IsNil(r) THEN NumOfReadCallPerWorker ELSE k

\* ReadObject returns r: its locals are gone, and the closure stores r in
\* main's err (line 175).
ReadObjectReturns(w, r) ==
    /\ roRes' = [roRes EXCEPT ![w] = r]
    /\ err' = r
    /\ idx' = [idx EXCEPT ![w] = -1]
    /\ n' = [n EXCEPT ![w] = 0]
    /\ lines' = [lines EXCEPT ![w] = 0]
    /\ wpc' = [wpc EXCEPT ![w] = "test"]

\* A ReadObject that took the start time after NewReader had returned.
OpenEventsLateStart(o) == (IF o = "ok" THEN <<"open">> ELSE <<>>) \o <<"start">>

\* Lines 119-121: start := time.Now(), then NewReader, which opens the stream
\* unless it fails.
OpenEvents(o) == <<"start">> \o (IF o = "ok" THEN <<"open">> ELSE <<>>)

\* Lines 126-132: io.Copy drains the stream; if it returned no error the
\* duration since start is taken and printed.
CopyEvents(o) == IF o = "ok" THEN <<"drain", "end", "print">> ELSE <<>>

\* Line 134: rc.Close().
CloseEvents == <<"close">>

\* object.NewReader(ctx), lines 119-124.
ReadOpen(w) ==
    /\ wpc[w] = "open"
    /\ \E o \in CallOutcomes :
        /\ ev' = [ev EXCEPT ![w] = OpenEvents(o)]
        /\ IF o = "ok"
             THEN /\ rcOpen' = [rcOpen EXCEPT ![w] = @ + 1]
                  /\ wpc' = [wpc EXCEPT ![w] = "copy"]
                  /\ UNCHANGED <<idx, n, lines, roRes, err, linesAhead>>
             ELSE /\ ReadObjectReturns(w, NewErr(IF o = "fail" THEN "open" ELSE "canceled", w))
                  /\ linesAhead' = linesAhead - LinesDue(roRes'[w], n[w])
                  /\ UNCHANGED rcOpen
    /\ transient' = [transient EXCEPT ![w] = FALSE]
    /\ UNCHANGED <<tmp, gErr, firstRet, nErrRet>>
    /\ UNCHANGED mainVars

\* A ReadObject that printed the duration before it looked at io.Copy's error.
LinesPrintedAlways(o) == 1

\* Lines 127-132: fmt.Println(duration) is reached only when io.Copy returned
\* no error.
LinesPrinted(o) == IF o = "ok" THEN 1 ELSE 0

\* io.Copy(io.Discard, rc), lines 126-132: on an error ReadObject returns
\* with rc as it is, otherwise the duration is printed.
ReadCopy(w) ==
    /\ wpc[w] = "copy"
    /\ \E o \in CallOutcomes :
        /\ ev' = [ev EXCEPT ![w] = @ \o CopyEvents(o)]
        /\ IF o = "ok"
             THEN /\ lines' = [lines EXCEPT ![w] = @ + LinesPrinted(o)]
                  /\ linesAhead' = linesAhead + LinesPrinted(o)
                  /\ wpc' = [wpc EXCEPT ![w] = "close"]
                  /\ UNCHANGED <<idx, n, roRes, err>>
             ELSE /\ ReadObjectReturns(w, NewErr(IF o = "fail" THEN "copy" ELSE "canceled", w))
                  /\ linesAhead' = linesAhead + LinesPrinted(o) - LinesDue(roRes'[w], n[w])
    /\ transient' = [transient EXCEPT ![w] = FALSE]
    /\ UNCHANGED <<rcOpen, tmp, gErr, firstRet, nErrRet>>
    /\ UNCHANGED mainVars

\* A client that was given the policy that retries nothing.
RetryPolicyNever == "never"

\* storage.WithPolicy(storage.RetryAlways), line 163.
RetryPolicy == "always"

\* The policy the client's calls run under: the one SetRetry attached, else
\* the library's default.
ClientPolicy == IF retrySet > 0 THEN RetryPolicy ELSE "idempotent"

\* Whether the client retries a read that failed transiently: under
\* RetryAlways every call is retried, under the default the idempotent ones,
\* which the reads are.
Retried(policy) == policy \in {"always", "idempotent"}

\* An attempt of the remote call inside NewReader or io.Copy fails
\* transiently.  The client sleeps the backoff (at most 30 s, doubling) and
\* tries again inside the same call, which has not returned; with no retry
\* the call returns the error.  How often a call has failed is not counted:
\* a second failure of the same call is a step that changes nothing.
TransientFailure(w) ==
    /\ wpc[w] \in {"open", "copy"}
    /\ IF Retried(ClientPolicy)
          THEN /\ transient' = [transient EXCEPT ![w] = TRUE]
               /\ UNCHANGED <<wpc, idx, n, lines, roRes, err, linesAhead>>
          ELSE /\ ReadObjectReturns(w, NewErr(wpc[w], w))
               /\ linesAhead' = linesAhead - LinesDue(roRes'[w], n[w])
               /\ transient' = [transient EXCEPT ![w] = FALSE]
    /\ UNCHANGED <<rcOpen, tmp, gErr, firstRet, nErrRet, ev>>
    /\ UNCHANGED mainVars

\* A ReadObject that went to the next read without closing the reader.
AfterCloseLeaked(k) == k

\* rc.Close() (line 134) closes the one reader of this read.
AfterClose(k) == k - 1

\* rc.Close(), i++ and the loop test, lines 134-135 and 118.  After the last
\* read ReadObject returns its named result, nil (line 137).
ReadClose(w) ==
    /\ wpc[w] = "close"
    /\ ev' = [ev EXCEPT ![w] = @ \o CloseEvents]
    /\ rcOpen' = [rcOpen EXCEPT ![w] = AfterClose(@)]
    /\ IF n[w] + 1 < NumOfReadCallPerWorker
          THEN /\ n' = [n EXCEPT ![w] = @ + 1]
               /\ wpc' = [wpc EXCEPT ![w] = "open"]
               /\ UNCHANGED <<idx, lines, roRes, err, linesAhead>>
          ELSE /\ ReadObjectReturns(w, NilErr)
               /\ linesAhead' = linesAhead - LinesDue(NilErr, n[w])
    /\ UNCHANGED <<tmp, gErr, firstRet, nErrRet, transient>>
    /\ UNCHANGED mainVars

\* if err != nil reads main's err (line 176).
TaskTest(w) ==
    /\ wpc[w] = "test"
    /\ wpc' = [wpc EXCEPT ![w] = IF IsNil(err) THEN "return" ELSE "wrapRead"]
    /\ UNCHANGED <<idx, n, lines, rcOpen, roRes, tmp, firstRet, nErrRet>>
    /\ UNCHANGED <<err, gErr, linesAhead, transient, ev>>
    /\ UNCHANGED mainVars

\* Line 177 reads main's err as the operand of fmt.Errorf ...
TaskWrapRead(w) ==
    /\ wpc[w] = "wrapRead"
    /\ tmp' = [tmp EXCEPT ![w] = err]
    /\ wpc' = [wpc EXCEPT ![w] = "wrapWrite"]
    /\ UNCHANGED <<idx, n, lines, rcOpen, roRes, firstRet, nErrRet>>
    /\ UNCHANGED <<err, gErr, linesAhead, transient, ev>>
    /\ UNCHANGED mainVars

\* ... and stores the wrapped error in main's err.
TaskWrapWrite(w) ==
    /\ wpc[w] = "wrapWrite"
    /\ err' = Wrap(tmp[w])
    /\ tmp' = [tmp EXCEPT ![w] = NilErr]
    /\ wpc' = [wpc EXCEPT ![w] = "return"]
    /\ UNCHANGED <<idx, n, lines, rcOpen, roRes, firstRet, nErrRet>>
    /\ UNCHANGED <<gErr, linesAhead, transient, ev>>
    /\ UNCHANGED mainVars

\* A group that kept the last error instead of the first.
GroupErrLast(old, new) == IF IsNil(new) THEN old ELSE new

\* errgroup: the first non-nil error a task returns is kept (errOnce).
GroupErr(old, new) == IF IsNil(old) THEN new ELSE old

\* return err reads main's err (lines 178 and 180); the group records the
\* value and counts the task as done.
TaskReturn(w) ==
    /\ wpc[w] = "return"
    /\ gErr' = GroupErr(gErr, err)
    /\ firstRet' = IF nErrRet = 0 THEN err ELSE firstRet
    /\ nErrRet' = IF IsNil(err) THEN nErrRet ELSE nErrRet + 1
    /\ wpc' = [wpc EXCEPT ![w] = "done"]
    /\ UNCHANGED <<idx, n, lines, rcOpen, roRes, tmp>>
    /\ UNCHANGED <<err, linesAhead, transient, ev>>
    /\ UNCHANGED mainVars

----------------------------------------------------------------------------
\* main, lines 184-190.

\* A Wait that returned as soon as one task had returned.
WaitReturnsAny == \E w \in Workers : wpc[w] = "done"

\* eG.Wait() returns when every task started with Go has returned.
WaitReturns == \A w \in Workers : wpc[w] \in {"idle", "done"}

\* A main that dropped the result of Wait and tested the err the tasks left.
WaitResultDropped == err

\* err = eG.Wait(): the group's error replaces whatever err held.
WaitResult == gErr

MainWait ==
    /\ pcMain = "wait"
    /\ WaitReturns
    /\ err' = WaitResult
    /\ pcMain' = "report"
    /\ UNCHANGED <<env, client, retrySet, i, gErr, stdoutOk, stderr, bucketRes>>
    /\ UNCHANGED taskVars

\* The final status line: success on stdout, or the error on stderr.
MainReport ==
    /\ pcMain = "report"
    /\ IF IsNil(err)
          THEN /\ stdoutOk' = stdoutOk + 1
               /\ UNCHANGED stderr
          ELSE /\ stderr' = Append(stderr, err)
               /\ UNCHANGED stdoutOk
    /\ pcMain' = "done"
    /\ UNCHANGED <<env, client, retrySet, err, i, gErr, bucketRes>>
    /\ UNCHANGED taskVars

----------------------------------------------------------------------------
Next ==
    \/ MainCreateHttp
    \/ GrpcSetenv
    \/ GrpcNewClient
    \/ GrpcUnsetenv
    \/ GrpcReturn
    \/ MainSetRetry
    \/ MainBucketCreate
    \/ MainGo
    \/ MainInc
    \/ MainWait
    \/ MainReport
    \/ \E w \in Workers : TaskStart(w)
    \/ \E w \in Workers : ReadOpen(w)
    \/ \E w \in Workers : ReadCopy(w)
    \/ \E w \in Workers : TransientFailure(w)
    \/ \E w \in Workers : ReadClose(w)
    \/ \E w \in Workers : TaskTest(w)
    \/ \E w \in Workers : TaskWrapRead(w)
    \/ \E w \in Workers : TaskWrapWrite(w)
    \/ \E w \in Workers : TaskReturn(w)

Spec == Init /\ [][Next]_vars

----------------------------------------------------------------------------
\* Properties.

Launched(w) == wpc[w] # "idle"
Terminated(w) == wpc[w] = "done"
InReadObject(w) == wpc[w] \in {"open", "copy", "close"}
AfterReadObject(w) == wpc[w] \in {"test", "wrapRead", "wrapWrite", "return", "done"}
StatusPrinted == stdoutOk + Len(stderr) > 0

\* C1: main starts exactly NumOfWorker tasks, task k in iteration k; starting
\* the next task never waits for an earlier one; and the status line is
\* printed only when all NumOfWorker tasks have returned.
C1_AllStartedAllAwaited ==
    /\ pcMain = "go" => /\ {w \in Workers : Launched(w)} = 0..(i - 1)
                        /\ ENABLED MainGo
    /\ pcMain = "inc" => {w \in Workers : Launched(w)} = 0..i
    /\ pcMain \in {"wait", "report", "done"} =>
          Cardinality({w \in Workers : Launched(w)}) = NumOfWorker
    /\ (pcMain \in {"report", "done"} \/ StatusPrinted) =>
          \A w \in Workers : Terminated(w)

\* The status line is out after a run in which one task's ReadObject failed
\* and another's succeeded.
C1_Witness ==
    /\ pcMain = "done"
    /\ StatusPrinted
    /\ \E w \in Workers : ~IsNil(roRes[w])
    /\ \E w \in Workers : IsNil(roRes[w])

\* C2: main prints the success line only if no task's ReadObject returned an
\* error, and the error line whenever one did.
C2_FailedIffSomeReadObjectFailed ==
    pcMain = "done" =>
       /\ stdoutOk = 1 <=> \A w \in Workers : IsNil(roRes[w])
       /\ Len(stderr) = 1 <=> \E w \in Workers : ~IsNil(roRes[w])

\* C3: what a task function returns is decided by its own ReadObject alone:
\* nil when that returned nil, else that error wrapped once.
C3_OwnResultReturned ==
    \A w \in Workers :
       wpc[w] = "return" =>
          err = IF IsNil(roRes[w]) THEN NilErr ELSE Wrap(roRes[w])

\* C4: the indices the running ReadObject calls were given lie in
\* 0..NumOfWorker-1, and no two of these calls read the same object name.
C4_DistinctShardIndices ==
    \A w \in Workers :
       idx[w] # -1 =>
          /\ idx[w] \in 0..(NumOfWorker - 1)
          /\ \A v \in Workers \ {w} :
                idx[v] # -1 => ObjectName(idx[v]) # ObjectName(idx[w])

\* C5: when ReadObject has returned, every reader it opened was closed.
C5_ReaderClosedOnReturn ==
    \A w \in Workers : AfterReadObject(w) => rcOpen[w] = 0

\* C6: once client construction has returned an error, main is in its
\* failure report and has neither called SetRetry nor gone on from there.
C6_ClientInitErrorAborts ==
    (err.kind = "client" /\ pcMain \notin {"grpcUnset", "grpcReturn"}) =>
       /\ pcMain \in {"report", "done"}
       /\ retrySet = 0
       /\ bucketRes = "none"
       /\ \A w \in Workers : ~Launched(w)

\* C7: after bucketHandle.Create failed with an error other than "already
\* exists", no task is started.
C7_ProvisionErrorAborts ==
    bucketRes = "other" => \A w \in Workers : ~Launched(w)

\* C8: after bucketHandle.Create returned "already exists" main goes on to
\* start the tasks, starts all of them, reports only when all have returned,
\* and reports the group's error and nothing else: success exactly if the
\* group has no error.
C8_AlreadyExistsIsSuccess ==
    bucketRes = "exists" =>
       /\ pcMain \in {"go", "inc", "wait", "report", "done"}
       /\ pcMain = "go" => ENABLED MainGo
       /\ pcMain \in {"wait", "report", "done"} => \A w \in Workers : Launched(w)
       /\ pcMain \in {"report", "done"} =>
             /\ \A w \in Workers : Terminated(w)
             /\ err = gErr
       /\ pcMain = "done" =>
             /\ stdoutOk = (IF IsNil(gErr) THEN 1 ELSE 0)
             /\ stderr = (IF IsNil(gErr) THEN <<>> ELSE <<gErr>>)
       /\ \A k \in 1..Len(stderr) : stderr[k].kind # "bucketExists"

\* Create returned "already exists", all tasks were started and the run ended
\* with the success line.
C8_Witness ==
    /\ bucketRes = "exists"
    /\ pcMain = "done"
    /\ stdoutOk = 1
    /\ \A w \in Workers : Terminated(w)

ReadStep(w) == ReadOpen(w) \/ ReadCopy(w) \/ ReadClose(w)

TaskLocal(w) == <<wpc[w], idx[w], n[w], lines[w], rcOpen[w], roRes[w], tmp[w]>>

\* C9: no call of a task is ever cancelled; a task in its read loop can
\* always take its next step, whatever the other tasks returned; a step of
\* one task changes nothing of another task; and a task leaves the read loop
\* only after its last read or with an error of its own call.
C9_NoSiblingCancellation ==
    /\ [](\A w \in Workers :
             /\ roRes[w].kind # "canceled"
             /\ InReadObject(w) => ENABLED ReadStep(w))
    /\ [][\A w \in Workers :
             /\ \A v \in Workers \ {w} :
                   wpc'[v] # wpc[v] => TaskLocal(w)' = TaskLocal(w)
             /\ (InReadObject(w) /\ wpc'[w] = "test") =>
                   \/ /\ wpc[w] = "close"
                      /\ n[w] = NumOfReadCallPerWorker - 1
                      /\ IsNil(roRes'[w])
                   \/ /\ wpc[w] = "open"
                      /\ roRes'[w] = NewErr("open", w)
                   \/ /\ wpc[w] = "copy"
                      /\ roRes'[w] = NewErr("copy", w)]_vars

\* One task has returned an error to the group, and another is closing the
\* reader of its last read.
C9_Witness ==
    \E v \in Workers : \E w \in Workers \ {v} :
       /\ Terminated(v)
       /\ ~IsNil(roRes[v])
       /\ ~IsNil(gErr)
       /\ wpc[w] = "close"
       /\ n[w] = NumOfReadCallPerWorker - 1

\* C10: when main has reported, what it printed is the first non-nil error a
\* task function returned, whatever the later ones returned.
C10_FirstErrorReported ==
    /\ nErrRet > 0 => gErr = firstRet
    /\ (pcMain = "done" /\ nErrRet > 0) =>
          /\ stderr = <<firstRet>>
          /\ stdoutOk = 0

\* Two task functions returned an error, and main has reported.
C10_Witness ==
    /\ pcMain = "done"
    /\ nErrRet >= 2
    /\ stderr = <<firstRet>>

RECURSIVE SumLines(_)
SumLines(S) ==
    IF S = {} THEN 0
    ELSE LET w == CHOOSE x \in S : TRUE IN lines[w] + SumLines(S \ {w})

\* C11: a ReadObject call has printed one line for each read it completed and
\* one more once the current read's copy succeeded; it returns nil only after
\* NumOfReadCallPerWorker reads and as many lines, and returns the error of
\* its k-th read with k-1 lines printed and without another read.  So the
\* lines printed by all tasks are those of the calls still running plus, for
\* each call that returned, NumOfReadCallPerWorker or k-1.
C11_OneLinePerSuccessfulRead ==
    /\ [](/\ \A w \in Workers :
                InReadObject(w) =>
                   /\ n[w] < NumOfReadCallPerWorker
                   /\ lines[w] = n[w] + (IF wpc[w] = "close" THEN 1 ELSE 0)
          /\ linesAhead = SumLines(Workers))
    /\ [][\A w \in Workers :
             /\ AfterReadObject(w) => AfterReadObject(w)'
             /\ (InReadObject(w) /\ wpc'[w] = "test") =>
                   IF IsNil(roRes'[w])
                      THEN /\ lines[w] = NumOfReadCallPerWorker
                           /\ n[w] + 1 = NumOfReadCallPerWorker
                      ELSE lines[w] = n[w]]_vars

\* All calls have returned, one with the error of a failed copy and one with
\* nil, and the lines printed are the lines due.
C11_Witness ==
    /\ \A w \in Workers : AfterReadObject(w)
    /\ \E w \in Workers : roRes[w].kind = "copy"
    /\ \E w \in Workers : IsNil(roRes[w])
    /\ linesAhead = 0

\* C12: the two variables are set only while CreateGrpcClient is between its
\* Setenv calls and its Unsetenv calls, storage.NewClient runs with both set,
\* and when CreateGrpcClient returns, with a client or with an error, and
\* ever after, neither is set.
C12_EnvUnsetAfterGrpcClient ==
    /\ env # {} => pcMain \in {"grpcNew", "grpcUnset"}
    /\ pcMain = "grpcNew" => env = EnvVars
    /\ pcMain = "grpcReturn" => env \cap EnvVars = {}
    /\ pcMain \notin {"create", "grpcNew", "grpcUnset"} => env = {}

\* CreateGrpcClient is about to return the error of storage.NewClient, and
\* neither variable is set.
C12_Witness ==
    /\ pcMain = "grpcReturn"
    /\ client = "nil"
    /\ err.kind = "client"
    /\ env = {}

\* The message names the call that failed: reader-open or stream-copy.
NamesCallType(m) ==
    \E k \in 1..Len(m) :
       /\ m[k].part = "text"
       /\ m[k].v \in {"while creating reader object: ",
                      "while reading and discarding content: "}

\* The message has a part that gives a shard index.
NamesShard(m) == \E k \in 1..Len(m) : m[k].part = "index"

\* C13: every error line main prints names the shard that failed and the call
\* that failed.
C13_ErrorNamesShardAndCall ==
    \A k \in 1..Len(stderr) :
       /\ NamesCallType(Message(stderr[k]))
       /\ NamesShard(Message(stderr[k]))

\* C14: a remote call of a read that fails transiently is retried inside the
\* call: the failed attempt prints nothing, ends no read and gives the task
\* no error; when the call then succeeds the read goes on as one read of the
\* loop, with one duration line printed for it after the drain.
C14_RetriedReadIsOneRead ==
    /\ [](\A w \in Workers :
             transient[w] =>
                /\ wpc[w] \in {"open", "copy"}
                /\ retrySet = 1
                /\ lines[w] = n[w])
    /\ [][\A w \in Workers :
             /\ TransientFailure(w) =>
                   /\ wpc' = wpc /\ n' = n /\ lines' = lines
                   /\ linesAhead' = linesAhead
                   /\ err' = err /\ roRes' = roRes /\ gErr' = gErr
                   /\ stderr' = stderr /\ stdoutOk' = stdoutOk
             /\ (transient[w] /\ wpc[w] = "open" /\ wpc'[w] = "copy") =>
                   /\ n'[w] = n[w] /\ lines'[w] = lines[w]
                   /\ linesAhead' = linesAhead /\ err' = err
             /\ (transient[w] /\ wpc[w] = "copy" /\ wpc'[w] = "close") =>
                   /\ n'[w] = n[w] /\ lines'[w] = lines[w] + 1
                   /\ linesAhead' = linesAhead + 1 /\ err' = err]_vars

\* The drain of a task's last read has failed transiently and is being
\* retried, after an earlier read of the task went through.
C14_Witness ==
    \E w \in Workers :
       /\ transient[w]
       /\ wpc[w] = "copy"
       /\ n[w] = NumOfReadCallPerWorker - 1
       /\ lines[w] = n[w]

\* The coordinator's phase: Idle (0) until the client is built and the retry
\* policy attached, ClientReady (1) until Create has returned, ContainerReady
\* (2) until the first task is launched, Running (3) until Wait has returned,
\* then the end (4), which a panic reaches too.
PhaseRank ==
    CASE pcMain \in {"create", "grpcNew", "grpcUnset", "grpcReturn", "setRetry"} -> 0
      [] pcMain = "bucket" -> 1
      [] pcMain \in {"go", "inc", "wait"} ->
            IF \E w \in Workers : Launched(w) THEN 3 ELSE 2
      [] OTHER -> 4

\* C15: the phases follow one another in order, none left out but by a
\* failure; when the first task is launched the retry policy has been
\* attached exactly once and Create has returned; once a task is launched the
\* client is not changed again.
C15_PhasesOrdered ==
    /\ []((\E w \in Workers : Launched(w)) =>
             /\ client = "ready"
             /\ retrySet = 1
             /\ bucketRes # "none")
    /\ [][/\ PhaseRank' \in {PhaseRank, PhaseRank + 1} \/ pcMain' = "panic"
          /\ (\E w \in Workers : Launched(w)) =>
                /\ client' = client
                /\ retrySet' = retrySet]_vars

\* Every task is launched, with the policy attached once and the bucket found
\* to exist already.
C15_Witness ==
    /\ pcMain = "wait"
    /\ \A w \in Workers : Launched(w)
    /\ retrySet = 1
    /\ bucketRes = "exists"

\* C16: when main has ended it has printed exactly one status line, the
\* success line on stdout or the error line on stderr.
C16_OneStatusAtEnd ==
    pcMain \in {"done", "panic"} => stdoutOk + Len(stderr) = 1

\* The order of one read.
ReadOrder == <<"start", "open", "drain", "end", "print", "close">>

IsPrefix(s, t) == Len(s) <= Len(t) /\ s = SubSeq(t, 1, Len(s))

Has(s, x) == \E k \in 1..Len(s) : s[k] = x

Pos(s, x) == CHOOSE k \in 1..Len(s) : s[k] = x

\* What a read did between taking the start time and taking the end time.
Timed(s) == SubSeq(s, Pos(s, "start") + 1, Pos(s, "end") - 1)

\* C17: a read takes the start time, opens the stream, drains it, takes the
\* end time and prints the duration, and closes the stream, in this order; the
\* duration covers the open and the drain and not the close.
C17_ReadEventOrder ==
    \A w \in Workers :
       /\ IsPrefix(ev[w], ReadOrder)
       /\ Has(ev[w], "end") =>
             /\ Timed(ev[w]) = <<"open", "drain">>
             /\ Has(ev[w], "close") => Pos(ev[w], "close") > Pos(ev[w], "print")

\* A task has finished a whole read, its stream closed, and is about to start
\* the next one.
C17_Witness ==
    \E w \in Workers :
       /\ wpc[w] = "open"
       /\ n[w] >= 1
       /\ ev[w] = ReadOrder

\* The readers open in the tasks of S.
RECURSIVE SumOpen(_)
SumOpen(S) ==
    IF S = {} THEN 0
    ELSE LET w == CHOOSE x \in S : TRUE IN rcOpen[w] + SumOpen(S \ {w})

\* C18: a task starts a read with no reader open, the reader of the read
\* before it drained and closed; it never holds more than one open reader,
\* and no more than NumOfWorker readers are open at a time.
C18_OneOpenReaderPerTask ==
    /\ \A w \in Workers :
          /\ rcOpen[w] \in {0, 1}
          /\ wpc[w] \in {"idle", "spawned", "open"} => rcOpen[w] = 0
          /\ wpc[w] \in {"copy", "close"} => rcOpen[w] = 1
          /\ (wpc[w] = "open" /\ n[w] >= 1) =>
                /\ Has(ev[w], "drain")
                /\ ev[w][Len(ev[w])] = "close"
    /\ SumOpen(Workers) <= NumOfWorker

\* Every task holds an open reader, one of them that of a later read.
C18_Witness ==
    /\ \A w \in Workers : rcOpen[w] = 1 /\ InReadObject(w)
    /\ \E w \in Workers : n[w] >= 1

\* C19: when Wait has returned every task has returned, so that no task
\* writes main's err any more; err is then what Wait returned, it stays so
\* until main ends, and it alone decides which status line is printed.
C19_DecisionIsWaitResult ==
    /\ [](pcMain \in {"report", "done"} =>
             /\ \A w \in Workers : Terminated(w)
             /\ err = gErr)
    /\ [][pcMain = "report" =>
             /\ err' = err
             /\ stdoutOk' = stdoutOk + (IF IsNil(gErr) THEN 1 ELSE 0)
             /\ stderr' = IF IsNil(gErr) THEN stderr ELSE Append(stderr, gErr)]_vars

\* Wait has returned an error though a task had stored nil in err.
C19_Witness ==
    /\ pcMain = "report"
    /\ ~IsNil(err)
    /\ err = gErr
    /\ \E w \in Workers : IsNil(roRes[w])

====
